---- MODULE Spec2Model ----
(***************************************************************************)
(* Model of pkg/executor/mpperr/mpp_err_recovery.go: the RecoveryHandler   *)
(* (enable flag, handler chain, retry budget) and its mppResultHolder      *)
(* (FIFO of chunks, row count, cannotHold latch, memory tracker).          *)
(* In Spec calls are serialized: every action is one whole method call.    *)
(* In SpecConcurrent callers run Recovery with no lock around it: the      *)
(* budget check, the load and the store of curRecoveryCnt++ and the        *)
(* handler loop are separate steps.                                        *)
(***************************************************************************)
EXTENDS Integers, Sequences, FiniteSets, TLC

VARIABLES
    enable,           \* RecoveryHandler.enable
    useAutoScaler,    \* memLimitHandlerImpl.useAutoScaler (handlers[0])
    curRecoveryCnt,   \* RecoveryHandler.curRecoveryCnt
    maxRecoveryCnt,   \* RecoveryHandler.maxRecoveryCnt
    capacity,         \* mppResultHolder.capacity
    cannotHold,       \* mppResultHolder.cannotHold
    curRows,          \* mppResultHolder.curRows
    chks,             \* mppResultHolder.chks
    memTracker,       \* bytes consumed on mppResultHolder.memTracker
    inserted,         \* history: chunks passed to HoldResult since the last ResetHolder
    popped,           \* history: chunks returned by PopFrontChk since the last ResetHolder
    validCalls,       \* history: number of enabled Recovery calls with valid input
    topoCalls,        \* history: number of RecoveryAndGetTopo invocations
    topo,             \* history: the most recent RecoveryAndGetTopo call and its outcome
    last,             \* the last call: its name, argument and returned value
    pc,               \* SpecConcurrent: where each caller stands inside Recovery
    req,              \* SpecConcurrent: the info argument of each caller's Recovery call
    reg,              \* SpecConcurrent: the value each caller loaded for curRecoveryCnt++
    interleaved       \* SpecConcurrent history: a Recovery call began while another was running

vars == <<enable, useAutoScaler, curRecoveryCnt, maxRecoveryCnt, capacity,
          cannotHold, curRows, chks, memTracker, inserted, popped,
          validCalls, topoCalls, topo, last, pc, req, reg, interleaved>>

holderVars == <<cannotHold, curRows, chks, memTracker>>
histVars == <<inserted, popped>>
configVars == <<enable, useAutoScaler, maxRecoveryCnt, capacity>>
procVars == <<pc, req, reg, interleaved>>

----------------------------------------------------------------------------
(* Bounds of the model *)
MaxCap == 3          \* holderCap is drawn from 0..MaxCap
MaxRows == 2         \* chk.NumRows() is drawn from 0..MaxRows
MaxMem == 1          \* chk.MemoryUsage() is NumRows() plus an overhead drawn from 1..MaxMem
MaxHold == 3         \* at most MaxHold HoldResult calls between two resets
MaxCalls == 4        \* at most MaxCalls enabled Recovery calls with valid input
MaxNodeCnt == 1      \* info.NodeCnt is drawn from 0..MaxNodeCnt
NumProcs == 2        \* SpecConcurrent: number of callers of Recovery

(* Program constants *)
DefaultMaxRecoveryCnt == 3

memLimitErrPattern == <<"M", "e", "m", "o", "r", "y", " ", "l", "i", "m", "i", "t">>

----------------------------------------------------------------------------
(* Errors returned by Recovery *)
ErrNil == "nil"
ErrNotEnabled == "mpp err recovery is not enabled"
ErrInvalidInput == "RecoveryInfo is nil or mppErr is nil"
ErrExceeds == "exceeds max recovery cnt"
ErrNoHandler == "no handler to recovery this type of mpp err"
ErrTopo == "RecoveryAndGetTopo failed"

(* strings.Contains on character sequences *)
Contains(s, substr) ==
    \E i \in 0..(Len(s) - Len(substr)) :
        \A j \in 1..Len(substr) : s[i + j] = substr[j]

(* Texts of the failures handed to Recovery *)
ErrTexts ==
    { memLimitErrPattern,
      <<"x">> \o memLimitErrPattern \o <<"!">>,
      <<"m", "e", "m", "o", "r", "y", " ", "l", "i", "m", "i", "t">>,
      <<"M", "e", "m", "o", "r", "y", " ", "l", "i", "m", "i">>,
      <<>> }

(* An error value: nil, or an error with a text *)
NilErr == [isNil |-> TRUE, text |-> <<>>]
MPPErrs == {NilErr} \cup {[isNil |-> FALSE, text |-> t] : t \in ErrTexts}

(* A *RecoveryInfo: nil, or a pointer to {MPPErr, NodeCnt} *)
NilInfo == [isNil |-> TRUE, MPPErr |-> NilErr, NodeCnt |-> 0]
RecoveryInfo ==
    {NilInfo} \cup {[isNil |-> FALSE, MPPErr |-> e, NodeCnt |-> n] :
                        e \in MPPErrs, n \in 0..MaxNodeCnt}

(* Outcomes of the topology service call *)
TopoOutcomes == {ErrNil, ErrTopo}

(* One call of the topology service: the node count it got and the error it
   returned; NoTopoCall when the service was not called *)
RecoveryAndGetTopo(nodeCnt, outcome) == [made |-> TRUE, nodeCnt |-> nodeCnt, err |-> outcome]
NoTopoCall == [made |-> FALSE, nodeCnt |-> 0, err |-> ErrNil]

(* The callers of SpecConcurrent *)
Procs == 1..NumProcs

(* A chunk: its identity, NumRows() and MemoryUsage() *)
Chunk(id, rows, mem) == [id |-> id, rows |-> rows, mem |-> mem]
NilChk == [id |-> 0, rows |-> 0, mem |-> 0]

----------------------------------------------------------------------------
(* memory.Tracker *)
Consume(bytes) == memTracker + bytes
Detach == 0

(* CanHoldResult that does not look at the latch *)
CanHoldResult_IgnoreLatch == capacity > 0

(* Read-only methods *)
Enabled == enable
CanHoldResult == capacity > 0 /\ ~cannotHold
NumHoldChk == Len(chks)
NumHoldRows == curRows
RecoveryCnt == curRecoveryCnt

(* insert that puts the chunk at the front of chks *)
insert_Prepend(chk) ==
    /\ chks' = <<chk>> \o chks
    /\ curRows' = curRows + chk.rows
    /\ cannotHold' = IF curRows + chk.rows >= capacity THEN TRUE ELSE cannotHold
    /\ memTracker' = Consume(chk.mem)

(* insert that recomputes the latch from the row count *)
insert_Recompute(chk) ==
    /\ chks' = Append(chks, chk)
    /\ curRows' = curRows + chk.rows
    /\ cannotHold' = (curRows + chk.rows >= capacity)
    /\ memTracker' = Consume(chk.mem)

(* insert that counts the rows only while the holder is open *)
insert_SkipRowsWhenClosed(chk) ==
    /\ chks' = Append(chks, chk)
    /\ curRows' = IF cannotHold THEN curRows ELSE curRows + chk.rows
    /\ cannotHold' = IF curRows + chk.rows >= capacity THEN TRUE ELSE cannotHold
    /\ memTracker' = Consume(chk.mem)

(* insert that closes the holder only above capacity *)
insert_StrictGreater(chk) ==
    /\ chks' = Append(chks, chk)
    /\ curRows' = curRows + chk.rows
    /\ cannotHold' = IF curRows + chk.rows > capacity THEN TRUE ELSE cannotHold
    /\ memTracker' = Consume(chk.mem)

(* mppResultHolder.insert *)
insert(chk) ==
    /\ chks' = Append(chks, chk)
    /\ curRows' = curRows + chk.rows
    /\ cannotHold' = IF curRows + chk.rows >= capacity THEN TRUE ELSE cannotHold
    /\ memTracker' = Consume(chk.mem)

(* reset that forgets to zero curRows *)
reset_KeepRows ==
    /\ cannotHold' = FALSE
    /\ curRows' = curRows
    /\ chks' = <<>>
    /\ memTracker' = Detach

(* mppResultHolder.reset *)
reset ==
    /\ cannotHold' = FALSE
    /\ curRows' = 0
    /\ chks' = <<>>
    /\ memTracker' = Detach

(* chooseHandlerImpl that does not look at useAutoScaler *)
chooseHandlerImpl_NoAutoScaler(mppErr) ==
    Contains(mppErr.text, memLimitErrPattern)

(* memLimitHandlerImpl.chooseHandlerImpl *)
chooseHandlerImpl(mppErr) ==
    Contains(mppErr.text, memLimitErrPattern) /\ useAutoScaler

(* The service call made by memLimitHandlerImpl.doRecovery *)
doRecoveryCall(info, topoErr) == RecoveryAndGetTopo(info.NodeCnt, topoErr)

(* doRecovery that drops the error of the service *)
doRecovery_Swallow(info, topoErr) == ErrNil

(* memLimitHandlerImpl.doRecovery: the error of RecoveryAndGetTopo, unchanged *)
doRecovery(info, topoErr) == doRecoveryCall(info, topoErr).err

----------------------------------------------------------------------------
Init ==
    /\ enable \in BOOLEAN
    /\ useAutoScaler \in BOOLEAN
    /\ capacity \in 0..MaxCap
    /\ curRecoveryCnt = 0
    /\ maxRecoveryCnt = DefaultMaxRecoveryCnt
    /\ cannotHold = FALSE
    /\ curRows = 0
    /\ chks = <<>>
    /\ memTracker = 0
    /\ inserted = <<>>
    /\ popped = <<>>
    /\ validCalls = 0
    /\ topoCalls = 0
    /\ topo = NoTopoCall
    /\ pc = [p \in Procs |-> "idle"]
    /\ req = [p \in Procs |-> NilInfo]
    /\ reg = [p \in Procs |-> 0]
    /\ interleaved = FALSE
    /\ last = [op |-> "NewRecoveryHandler", info |-> NilInfo, err |-> ErrNil, chk |-> NilChk]

(* RecoveryHandler.HoldResult *)
HoldResult(chk) ==
    /\ insert(chk)
    /\ inserted' = Append(inserted, chk)
    /\ last' = [op |-> "HoldResult", info |-> NilInfo, err |-> ErrNil, chk |-> chk]
    /\ UNCHANGED <<configVars, curRecoveryCnt, popped, validCalls, topoCalls, topo, procVars>>

(* PopFrontChk that does not set the latch *)
PopFrontChk_NoLatch ==
    IF ~enable \/ Len(chks) = 0
    THEN /\ last' = [op |-> "PopFrontChk", info |-> NilInfo, err |-> ErrNil, chk |-> NilChk]
         /\ UNCHANGED <<configVars, curRecoveryCnt, holderVars, histVars,
                        validCalls, topoCalls, topo, procVars>>
    ELSE /\ chks' = Tail(chks)
         /\ memTracker' = Consume(-Head(chks).mem)
         /\ cannotHold' = cannotHold
         /\ popped' = Append(popped, Head(chks))
         /\ last' = [op |-> "PopFrontChk", info |-> NilInfo, err |-> ErrNil, chk |-> Head(chks)]
         /\ UNCHANGED <<configVars, curRecoveryCnt, curRows, inserted,
                        validCalls, topoCalls, topo, procVars>>

(* PopFrontChk that does not look at enable *)
PopFrontChk_NoEnableCheck ==
    IF Len(chks) = 0
    THEN /\ last' = [op |-> "PopFrontChk", info |-> NilInfo, err |-> ErrNil, chk |-> NilChk]
         /\ UNCHANGED <<configVars, curRecoveryCnt, holderVars, histVars,
                        validCalls, topoCalls, topo, procVars>>
    ELSE /\ chks' = Tail(chks)
         /\ memTracker' = Consume(-Head(chks).mem)
         /\ cannotHold' = TRUE
         /\ popped' = Append(popped, Head(chks))
         /\ last' = [op |-> "PopFrontChk", info |-> NilInfo, err |-> ErrNil, chk |-> Head(chks)]
         /\ UNCHANGED <<configVars, curRecoveryCnt, curRows, inserted,
                        validCalls, topoCalls, topo, procVars>>

(* PopFrontChk that releases the footprint of the newest chunk *)
PopFrontChk_ReleaseLast ==
    IF ~enable \/ Len(chks) = 0
    THEN /\ last' = [op |-> "PopFrontChk", info |-> NilInfo, err |-> ErrNil, chk |-> NilChk]
         /\ UNCHANGED <<configVars, curRecoveryCnt, holderVars, histVars,
                        validCalls, topoCalls, topo, procVars>>
    ELSE /\ chks' = Tail(chks)
         /\ memTracker' = Consume(-chks[Len(chks)].mem)
         /\ cannotHold' = TRUE
         /\ popped' = Append(popped, Head(chks))
         /\ last' = [op |-> "PopFrontChk", info |-> NilInfo, err |-> ErrNil, chk |-> Head(chks)]
         /\ UNCHANGED <<configVars, curRecoveryCnt, curRows, inserted,
                        validCalls, topoCalls, topo, procVars>>

(* RecoveryHandler.PopFrontChk *)
PopFrontChk ==
    IF ~enable \/ Len(chks) = 0
    THEN /\ last' = [op |-> "PopFrontChk", info |-> NilInfo, err |-> ErrNil, chk |-> NilChk]
         /\ UNCHANGED <<configVars, curRecoveryCnt, holderVars, histVars,
                        validCalls, topoCalls, topo, procVars>>
    ELSE /\ chks' = Tail(chks)
         /\ memTracker' = Consume(-Head(chks).mem)
         /\ cannotHold' = TRUE
         /\ popped' = Append(popped, Head(chks))
         /\ last' = [op |-> "PopFrontChk", info |-> NilInfo, err |-> ErrNil, chk |-> Head(chks)]
         /\ UNCHANGED <<configVars, curRecoveryCnt, curRows, inserted,
                        validCalls, topoCalls, topo, procVars>>

(* ResetHolder that also resets the recovery count *)
ResetHolder_ResetsCnt ==
    /\ reset
    /\ inserted' = <<>>
    /\ popped' = <<>>
    /\ curRecoveryCnt' = 0
    /\ last' = [op |-> "ResetHolder", info |-> NilInfo, err |-> ErrNil, chk |-> NilChk]
    /\ UNCHANGED <<configVars, validCalls, topoCalls, topo, procVars>>

(* RecoveryHandler.ResetHolder *)
ResetHolder ==
    /\ reset
    /\ inserted' = <<>>
    /\ popped' = <<>>
    /\ last' = [op |-> "ResetHolder", info |-> NilInfo, err |-> ErrNil, chk |-> NilChk]
    /\ UNCHANGED <<configVars, curRecoveryCnt, validCalls, topoCalls, topo, procVars>>

(* A return of Recovery: the returned error, whether curRecoveryCnt++ was
   executed on the path, and the topology service call doRecovery made on the
   path (NoTopoCall if none).
   validCalls counts the enabled calls with a request and a failure present. *)
RecoveryReturns(info, err, charged, call) ==
    /\ last' = [op |-> "Recovery", info |-> info, err |-> err, chk |-> NilChk]
    /\ curRecoveryCnt' = IF charged THEN curRecoveryCnt + 1 ELSE curRecoveryCnt
    /\ topoCalls' = IF call.made THEN topoCalls + 1 ELSE topoCalls
    /\ topo' = IF call.made THEN call ELSE topo
    /\ validCalls' = IF enable /\ ~info.isNil /\ ~info.MPPErr.isNil
                     THEN validCalls + 1 ELSE validCalls
    /\ UNCHANGED <<configVars, holderVars, histVars, procVars>>

(* Recovery whose budget check is > instead of >= *)
Recovery_OffByOne(info, topoErr) ==
    IF ~enable
    THEN RecoveryReturns(info, ErrNotEnabled, FALSE, NoTopoCall)
    ELSE IF info.isNil \/ info.MPPErr.isNil
    THEN RecoveryReturns(info, ErrInvalidInput, FALSE, NoTopoCall)
    ELSE IF curRecoveryCnt > maxRecoveryCnt
    THEN RecoveryReturns(info, ErrExceeds, FALSE, NoTopoCall)
    ELSE IF chooseHandlerImpl(info.MPPErr)
    THEN RecoveryReturns(info, doRecovery(info, topoErr), TRUE, doRecoveryCall(info, topoErr))
    ELSE RecoveryReturns(info, ErrNoHandler, TRUE, NoTopoCall)

(* Recovery that charges the attempt only when the handler succeeds *)
Recovery_ChargeOnSuccess(info, topoErr) ==
    IF ~enable
    THEN RecoveryReturns(info, ErrNotEnabled, FALSE, NoTopoCall)
    ELSE IF info.isNil \/ info.MPPErr.isNil
    THEN RecoveryReturns(info, ErrInvalidInput, FALSE, NoTopoCall)
    ELSE IF curRecoveryCnt >= maxRecoveryCnt
    THEN RecoveryReturns(info, ErrExceeds, FALSE, NoTopoCall)
    ELSE IF chooseHandlerImpl(info.MPPErr)
    THEN RecoveryReturns(info, doRecovery(info, topoErr),
                         doRecovery(info, topoErr) = ErrNil, doRecoveryCall(info, topoErr))
    ELSE RecoveryReturns(info, ErrNoHandler, TRUE, NoTopoCall)

(* Recovery that checks its input before the enable flag *)
Recovery_InputFirst(info, topoErr) ==
    IF info.isNil \/ info.MPPErr.isNil
    THEN RecoveryReturns(info, ErrInvalidInput, FALSE, NoTopoCall)
    ELSE IF ~enable
    THEN RecoveryReturns(info, ErrNotEnabled, FALSE, NoTopoCall)
    ELSE IF curRecoveryCnt >= maxRecoveryCnt
    THEN RecoveryReturns(info, ErrExceeds, FALSE, NoTopoCall)
    ELSE IF chooseHandlerImpl(info.MPPErr)
    THEN RecoveryReturns(info, doRecovery(info, topoErr), TRUE, doRecoveryCall(info, topoErr))
    ELSE RecoveryReturns(info, ErrNoHandler, TRUE, NoTopoCall)

(* Recovery that checks the budget before its input *)
Recovery_BudgetFirst(info, topoErr) ==
    IF ~enable
    THEN RecoveryReturns(info, ErrNotEnabled, FALSE, NoTopoCall)
    ELSE IF curRecoveryCnt >= maxRecoveryCnt
    THEN RecoveryReturns(info, ErrExceeds, FALSE, NoTopoCall)
    ELSE IF info.isNil \/ info.MPPErr.isNil
    THEN RecoveryReturns(info, ErrInvalidInput, FALSE, NoTopoCall)
    ELSE IF chooseHandlerImpl(info.MPPErr)
    THEN RecoveryReturns(info, doRecovery(info, topoErr), TRUE, doRecoveryCall(info, topoErr))
    ELSE RecoveryReturns(info, ErrNoHandler, TRUE, NoTopoCall)

(* Recovery that classifies and runs the handler before the budget check *)
Recovery_ClassifyFirst(info, topoErr) ==
    IF ~enable
    THEN RecoveryReturns(info, ErrNotEnabled, FALSE, NoTopoCall)
    ELSE IF info.isNil \/ info.MPPErr.isNil
    THEN RecoveryReturns(info, ErrInvalidInput, FALSE, NoTopoCall)
    ELSE IF chooseHandlerImpl(info.MPPErr)
    THEN RecoveryReturns(info, doRecovery(info, topoErr),
                         curRecoveryCnt < maxRecoveryCnt, doRecoveryCall(info, topoErr))
    ELSE IF curRecoveryCnt >= maxRecoveryCnt
    THEN RecoveryReturns(info, ErrExceeds, FALSE, NoTopoCall)
    ELSE RecoveryReturns(info, ErrNoHandler, TRUE, NoTopoCall)

(* RecoveryHandler.Recovery; topoErr is what RecoveryAndGetTopo returns if it is called *)
Recovery(info, topoErr) ==
    IF ~enable
    THEN RecoveryReturns(info, ErrNotEnabled, FALSE, NoTopoCall)
    ELSE IF info.isNil \/ info.MPPErr.isNil
    THEN RecoveryReturns(info, ErrInvalidInput, FALSE, NoTopoCall)
    ELSE IF curRecoveryCnt >= maxRecoveryCnt
    THEN RecoveryReturns(info, ErrExceeds, FALSE, NoTopoCall)
    ELSE IF chooseHandlerImpl(info.MPPErr)
    THEN RecoveryReturns(info, doRecovery(info, topoErr), TRUE, doRecoveryCall(info, topoErr))
    ELSE RecoveryReturns(info, ErrNoHandler, TRUE, NoTopoCall)

Next ==
    \/ \E r \in 0..MaxRows, m \in 1..MaxMem :
          /\ Len(inserted) < MaxHold
          /\ HoldResult(Chunk(Len(inserted) + 1, r, r + m))
    \/ PopFrontChk
    \/ ResetHolder
    \/ \E info \in RecoveryInfo, topoErr \in TopoOutcomes :
          /\ validCalls < MaxCalls
          /\ Recovery(info, topoErr)

Spec == Init /\ [][Next]_vars

(* The calls of a caller that follows the admission convention of HoldResult:
   HoldResult is called only when CanHoldResult() is true *)
NextAdmission ==
    \/ \E r \in 0..MaxRows, m \in 1..MaxMem :
          /\ Len(inserted) < MaxHold
          /\ CanHoldResult
          /\ HoldResult(Chunk(Len(inserted) + 1, r, r + m))
    \/ PopFrontChk
    \/ ResetHolder
    \/ \E info \in RecoveryInfo, topoErr \in TopoOutcomes :
          /\ validCalls < MaxCalls
          /\ Recovery(info, topoErr)

SpecAdmission == Init /\ [][NextAdmission]_vars

----------------------------------------------------------------------------
(* Recovery called by several callers with no lock: the steps of one call *)

(* A return of caller p's Recovery call with error err *)
RecoveryExit(p, info, err) ==
    /\ last' = [op |-> "Recovery", info |-> info, err |-> err, chk |-> NilChk]
    /\ pc' = [pc EXCEPT ![p] = "idle"]
    /\ req' = [req EXCEPT ![p] = NilInfo]

(* RecoveryEnter whose budget check is > instead of >= *)
RecoveryEnter_OffByOne(p, info) ==
    /\ pc[p] = "idle"
    /\ interleaved' = (interleaved \/ \E q \in Procs \ {p} : pc[q] # "idle")
    /\ validCalls' = IF enable /\ ~info.isNil /\ ~info.MPPErr.isNil
                     THEN validCalls + 1 ELSE validCalls
    /\ IF ~enable
       THEN RecoveryExit(p, info, ErrNotEnabled)
       ELSE IF info.isNil \/ info.MPPErr.isNil
       THEN RecoveryExit(p, info, ErrInvalidInput)
       ELSE IF curRecoveryCnt > maxRecoveryCnt
       THEN RecoveryExit(p, info, ErrExceeds)
       ELSE /\ pc' = [pc EXCEPT ![p] = "load"]
            /\ req' = [req EXCEPT ![p] = info]
            /\ last' = last
    /\ UNCHANGED <<configVars, holderVars, histVars, curRecoveryCnt, topoCalls, topo, reg>>

(* Recovery, lines 112-122: the three guards; the budget check reads
   curRecoveryCnt *)
RecoveryEnter(p, info) ==
    /\ pc[p] = "idle"
    /\ interleaved' = (interleaved \/ \E q \in Procs \ {p} : pc[q] # "idle")
    /\ validCalls' = IF enable /\ ~info.isNil /\ ~info.MPPErr.isNil
                     THEN validCalls + 1 ELSE validCalls
    /\ IF ~enable
       THEN RecoveryExit(p, info, ErrNotEnabled)
       ELSE IF info.isNil \/ info.MPPErr.isNil
       THEN RecoveryExit(p, info, ErrInvalidInput)
       ELSE IF curRecoveryCnt >= maxRecoveryCnt
       THEN RecoveryExit(p, info, ErrExceeds)
       ELSE /\ pc' = [pc EXCEPT ![p] = "load"]
            /\ req' = [req EXCEPT ![p] = info]
            /\ last' = last
    /\ UNCHANGED <<configVars, holderVars, histVars, curRecoveryCnt, topoCalls, topo, reg>>

(* Recovery, line 124: the load of curRecoveryCnt++ *)
RecoveryLoad(p) ==
    /\ pc[p] = "load"
    /\ reg' = [reg EXCEPT ![p] = curRecoveryCnt]
    /\ pc' = [pc EXCEPT ![p] = "store"]
    /\ UNCHANGED <<configVars, holderVars, histVars, curRecoveryCnt, validCalls,
                   topoCalls, topo, last, req, interleaved>>

(* Recovery, line 124: the store of curRecoveryCnt++ *)
RecoveryStore(p) ==
    /\ pc[p] = "store"
    /\ curRecoveryCnt' = reg[p] + 1
    /\ reg' = [reg EXCEPT ![p] = 0]
    /\ pc' = [pc EXCEPT ![p] = "handlers"]
    /\ UNCHANGED <<configVars, holderVars, histVars, validCalls,
                   topoCalls, topo, last, req, interleaved>>

(* Recovery, lines 126-131: the handler loop and the return *)
RecoveryHandlers(p, topoErr) ==
    /\ pc[p] = "handlers"
    /\ IF chooseHandlerImpl(req[p].MPPErr)
       THEN /\ RecoveryExit(p, req[p], doRecovery(req[p], topoErr))
            /\ topoCalls' = topoCalls + 1
            /\ topo' = doRecoveryCall(req[p], topoErr)
       ELSE /\ RecoveryExit(p, req[p], ErrNoHandler)
            /\ UNCHANGED <<topoCalls, topo>>
    /\ UNCHANGED <<configVars, holderVars, histVars, curRecoveryCnt, validCalls,
                   reg, interleaved>>

NextConcurrent ==
    \E p \in Procs :
        \/ \E info \in RecoveryInfo :
              /\ validCalls < MaxCalls
              /\ RecoveryEnter(p, info)
        \/ RecoveryLoad(p)
        \/ RecoveryStore(p)
        \/ \E topoErr \in TopoOutcomes : RecoveryHandlers(p, topoErr)

SpecConcurrent == Init /\ [][NextConcurrent]_vars

----------------------------------------------------------------------------
(* Helpers of the properties *)
ValidInput(info) == ~info.isNil /\ ~info.MPPErr.isNil
HandlerResults == {ErrNil, ErrTopo, ErrNoHandler}
Min(a, b) == IF a <= b THEN a ELSE b

(* C1: in every reachable state of serialized calls, curRecoveryCnt <= maxRecoveryCnt. *)
C1_CntWithinBudget == curRecoveryCnt <= maxRecoveryCnt

C1_Witness ==
    /\ last.op = "Recovery"
    /\ last.err = ErrExceeds
    /\ curRecoveryCnt = maxRecoveryCnt

(* C2: with maxRecoveryCnt = N and the handler enabled, each of the first N
   Recovery calls with valid input returns success, a handler error or the
   no-handler error; every later one returns the budget error, and
   RecoveryCnt() stays at N whatever other calls happen in between. *)
C2_FirstNThenBudget ==
    enable =>
        /\ RecoveryCnt = Min(validCalls, maxRecoveryCnt)
        /\ (last.op = "Recovery" /\ ValidInput(last.info)) =>
               IF validCalls <= maxRecoveryCnt
               THEN last.err \in HandlerResults
               ELSE last.err = ErrExceeds

C2_Witness ==
    /\ enable
    /\ last.op = "Recovery"
    /\ ValidInput(last.info)
    /\ validCalls = maxRecoveryCnt + 1
    /\ last.err = ErrExceeds
    /\ RecoveryCnt = maxRecoveryCnt
    /\ Len(popped) > 0

(* C3: since the last ResetHolder, the chunks returned by PopFrontChk followed
   by the chunks still held are exactly the chunks passed to HoldResult, in
   insertion order. *)
C3_NoDropDupReorder == popped \o chks = inserted

C3_Witness ==
    /\ enable
    /\ Len(popped) >= 2
    /\ Len(chks) >= 1
    /\ last.op = "PopFrontChk"

(* C4: cannotHold goes from false to true only by a HoldResult that brings the
   row count to >= capacity or by a PopFrontChk, and from true to false only by
   ResetHolder; so once CanHoldResult() is false (capacity > 0) it stays false
   until ResetHolder. *)
C4_LatchTwoState ==
    [][ /\ (~cannotHold /\ cannotHold') =>
               \/ last'.op = "HoldResult" /\ curRows' >= capacity
               \/ last'.op = "PopFrontChk"
        /\ (cannotHold /\ ~cannotHold') => last'.op = "ResetHolder"
        /\ (capacity > 0 /\ ~CanHoldResult /\ last'.op # "ResetHolder")
               => ~CanHoldResult' ]_vars

C4_Witness ==
    /\ last.op = "HoldResult"
    /\ Len(popped) > 0
    /\ capacity > 0
    /\ curRows < capacity
    /\ cannotHold

(* C5 as stated: after any PopFrontChk call, CanHoldResult() is false. *)
C5_Original == last.op = "PopFrontChk" => ~CanHoldResult

(* C5 amended: once a PopFrontChk call has returned a chunk, CanHoldResult()
   is false until the next ResetHolder, also when capacity was never reached. *)
C5_PopReturningChunkCloses == Len(popped) > 0 => ~CanHoldResult

C5_Witness ==
    /\ last.op = "PopFrontChk"
    /\ last.chk # NilChk
    /\ capacity > 0
    /\ curRows < capacity
    /\ ~CanHoldResult

(* C6: a Recovery call that passes the three guards increases curRecoveryCnt
   by exactly 1, whether it returns success, a handler error or the no-handler
   error. *)
C6_ChargedOnce ==
    [][ (/\ last'.op = "Recovery"
         /\ enable
         /\ ValidInput(last'.info)
         /\ curRecoveryCnt < maxRecoveryCnt)
        => /\ curRecoveryCnt' = curRecoveryCnt + 1
           /\ last'.err \in HandlerResults ]_vars

C6_Witness ==
    /\ last.op = "Recovery"
    /\ last.err = ErrTopo
    /\ curRecoveryCnt = 1
    /\ topoCalls = 1

(* C7: on a disabled handler every Recovery call returns the not-enabled
   error, for any argument, and changes neither RecoveryCnt() nor the number
   of topology service calls. *)
C7_DisabledRecovery ==
    [][ (last'.op = "Recovery" /\ ~enable)
        => /\ last'.err = ErrNotEnabled
           /\ curRecoveryCnt' = curRecoveryCnt
           /\ topoCalls' = topoCalls ]_vars

C7_Witness ==
    /\ ~enable
    /\ last.op = "Recovery"
    /\ last.info.isNil
    /\ last.err = ErrNotEnabled
    /\ RecoveryCnt = 0

(* C8: an enabled Recovery call with a nil request or nil MPPErr returns the
   invalid-input error even when the budget is exhausted; one with valid input
   and curRecoveryCnt >= maxRecoveryCnt returns the budget error; neither
   changes curRecoveryCnt. *)
C8_GuardOrder ==
    [][ (last'.op = "Recovery" /\ enable)
        => /\ ~ValidInput(last'.info)
                => last'.err = ErrInvalidInput /\ curRecoveryCnt' = curRecoveryCnt
           /\ (ValidInput(last'.info) /\ curRecoveryCnt >= maxRecoveryCnt)
                => last'.err = ErrExceeds /\ curRecoveryCnt' = curRecoveryCnt ]_vars

C8_Witness ==
    /\ enable
    /\ last.op = "Recovery"
    /\ ~ValidInput(last.info)
    /\ curRecoveryCnt = maxRecoveryCnt
    /\ last.err = ErrInvalidInput

(* C9 as stated: no call on a disabled handler changes the held chunks, the
   row count, the latch or the recovery count. *)
C9_Original ==
    [][ ~enable => UNCHANGED <<chks, curRows, cannotHold, curRecoveryCnt>> ]_vars

(* C9 amended: on a disabled handler no call changes the recovery count,
   PopFrontChk returns nil and Recovery the not-enabled error and both leave
   the held chunks, the row count and the latch alone; HoldResult still
   appends its chunk and ResetHolder still resets the holder. *)
C9_DisabledGuardedOps ==
    [][ ~enable
        => /\ curRecoveryCnt' = curRecoveryCnt
           /\ last'.op \in {"PopFrontChk", "Recovery"}
                => UNCHANGED <<chks, curRows, cannotHold>>
           /\ last'.op = "PopFrontChk" => last'.chk = NilChk
           /\ last'.op = "Recovery" => last'.err = ErrNotEnabled
           /\ last'.op = "HoldResult"
                => chks' = Append(chks, last'.chk) /\ curRows' = curRows + last'.chk.rows
           /\ last'.op = "ResetHolder"
                => chks' = <<>> /\ curRows' = 0 /\ ~cannotHold' ]_vars

C9_Witness ==
    /\ ~enable
    /\ last.op = "PopFrontChk"
    /\ last.chk = NilChk
    /\ Len(chks) > 0
    /\ chks = inserted

(* C10: ResetHolder leaves NumHoldChk() = 0 and NumHoldRows() = 0 and, when
   capacity > 0, CanHoldResult() = true, and does not change enable, capacity
   or maxRecoveryCnt. *)
C10_ResetHolder ==
    [][ last'.op = "ResetHolder"
        => /\ NumHoldChk' = 0
           /\ NumHoldRows' = 0
           /\ capacity > 0 => CanHoldResult'
           /\ UNCHANGED <<enable, capacity, maxRecoveryCnt>> ]_vars

C10_Witness ==
    /\ last.op = "ResetHolder"
    /\ NumHoldChk = 0
    /\ NumHoldRows = 0
    /\ capacity > 0
    /\ CanHoldResult
    /\ curRecoveryCnt > 0

(* C11: after ResetHolder, NumHoldChk() = 0 and RecoveryCnt() = 0. *)
C11_Original == last.op = "ResetHolder" => (NumHoldChk = 0 /\ RecoveryCnt = 0)

(* C12: a Recovery call made while the holder is committed (cannotHold is
   true) does not return success. *)
C12_Original == (last.op = "Recovery" /\ cannotHold) => last.err # ErrNil

(* The failure texts of ErrTexts in which "Memory limit" occurs *)
MemLimitTexts ==
    { <<"M", "e", "m", "o", "r", "y", " ", "l", "i", "m", "i", "t">>,
      <<"x", "M", "e", "m", "o", "r", "y", " ", "l", "i", "m", "i", "t", "!">> }

(* C13: an enabled Recovery call with valid input and budget left calls the
   memory-limit handler iff the failure text contains "Memory limit" and
   useAutoScaler is true; otherwise it returns the no-handler error. *)
C13_Routing ==
    [][ (/\ last'.op = "Recovery"
         /\ enable
         /\ ValidInput(last'.info)
         /\ curRecoveryCnt < maxRecoveryCnt)
        => IF last'.info.MPPErr.text \in MemLimitTexts /\ useAutoScaler
           THEN /\ topoCalls' = topoCalls + 1
                /\ last'.err \in TopoOutcomes
           ELSE /\ topoCalls' = topoCalls
                /\ last'.err = ErrNoHandler ]_vars

C13_Witness ==
    /\ enable
    /\ ~useAutoScaler
    /\ last.op = "Recovery"
    /\ ~last.info.isNil
    /\ last.info.MPPErr.text \in MemLimitTexts
    /\ last.err = ErrNoHandler
    /\ curRecoveryCnt = 1

(* C14: a Recovery call that selects the memory-limit handler calls the
   topology service exactly once, with the request's node count, and returns
   the service's error unchanged (success iff the service reports no error);
   no Recovery call makes more than one service call. *)
C14_OneServiceCall ==
    [][ last'.op = "Recovery"
        => /\ topoCalls' \in {topoCalls, topoCalls + 1}
           /\ (/\ enable
               /\ ValidInput(last'.info)
               /\ curRecoveryCnt < maxRecoveryCnt
               /\ chooseHandlerImpl(last'.info.MPPErr))
                => topoCalls' = topoCalls + 1
           /\ topoCalls' = topoCalls + 1
                => /\ topo'.made
                   /\ topo'.nodeCnt = last'.info.NodeCnt
                   /\ last'.err = topo'.err
                   /\ (last'.err = ErrNil) = (topo'.err = ErrNil) ]_vars

C14_Witness ==
    /\ last.op = "Recovery"
    /\ topoCalls = 1
    /\ topo.made
    /\ topo.err = ErrTopo
    /\ last.err = ErrTopo
    /\ topo.nodeCnt = 1
    /\ last.info.NodeCnt = 1

(* Sum of the row counts of a sequence of chunks *)
RECURSIVE SumRows(_)
SumRows(cs) == IF cs = <<>> THEN 0 ELSE Head(cs).rows + SumRows(Tail(cs))

(* C15: NumHoldRows() is the sum of the row counts of all chunks passed to
   HoldResult since the last ResetHolder, also of those passed while
   CanHoldResult() was false and of those already popped. *)
C15_RowsAreSum == NumHoldRows = SumRows(inserted)

C15_Witness ==
    /\ last.op = "HoldResult"
    /\ last.chk.rows > 0
    /\ Len(popped) > 0
    /\ Len(inserted) = Len(popped) + Len(chks)
    /\ NumHoldRows > capacity

(* Sum of the memory footprints of a sequence of chunks *)
RECURSIVE SumMem(_)
SumMem(cs) == IF cs = <<>> THEN 0 ELSE Head(cs).mem + SumMem(Tail(cs))

(* C16: the bytes charged to the holder's memory tracker are the sum of the
   footprints of the chunks currently held. *)
C16_TrackedIsHeld == memTracker = SumMem(chks)

C16_Witness ==
    /\ last.op = "PopFrontChk"
    /\ last.chk # NilChk
    /\ Len(chks) >= 1
    /\ last.chk.mem # chks[Len(chks)].mem
    /\ memTracker = SumMem(chks)

(* C17: on an enabled handler CanHoldResult() is true iff capacity > 0,
   NumHoldRows() < capacity and no PopFrontChk has returned a chunk since the
   last ResetHolder. *)
C17_CanHoldIff ==
    enable =>
        (CanHoldResult <=> (capacity > 0 /\ NumHoldRows < capacity /\ Len(popped) = 0))

C17_Witness ==
    /\ enable
    /\ last.op = "HoldResult"
    /\ last.chk.rows > 0
    /\ capacity > 0
    /\ NumHoldRows = capacity
    /\ Len(popped) = 0
    /\ ~CanHoldResult

(* C18: when HoldResult is called only while CanHoldResult() is true, the row
   count before every insert is < capacity, NumHoldRows() stays below capacity
   plus the row count of the last inserted chunk, and no chunk is inserted
   after a PopFrontChk returned one until ResetHolder. *)
C18_AdmissionBounds ==
    [][ /\ last'.op = "HoldResult"
            => /\ NumHoldRows < capacity
               /\ Len(popped) = 0
        /\ inserted' = <<>> => NumHoldRows' = 0
        /\ inserted' # <<>>
            => NumHoldRows' < capacity + inserted'[Len(inserted')].rows ]_vars

C18_Witness ==
    /\ last.op = "HoldResult"
    /\ Len(inserted) >= 2
    /\ capacity > 0
    /\ NumHoldRows > capacity
    /\ NumHoldRows < capacity + last.chk.rows

(* C19: the topology service is called only inside a Recovery call on an
   enabled handler, with a request and a failure present, with
   curRecoveryCnt < maxRecoveryCnt on entry and a failure classified as memory
   limit; the number of service calls never exceeds maxRecoveryCnt; Recovery
   never changes the holder. *)
C19_ServiceOnlyWhenRecoverable ==
    [][ /\ topoCalls' # topoCalls
            => /\ last'.op = "Recovery"
               /\ enable
               /\ ValidInput(last'.info)
               /\ curRecoveryCnt < maxRecoveryCnt
               /\ last'.info.MPPErr.text \in MemLimitTexts
               /\ useAutoScaler
        /\ topoCalls' <= maxRecoveryCnt
        /\ last'.op = "Recovery" => UNCHANGED holderVars ]_vars

C19_Witness ==
    /\ last.op = "Recovery"
    /\ last.err = ErrExceeds
    /\ last.info.MPPErr.text \in MemLimitTexts
    /\ topoCalls = maxRecoveryCnt
    /\ Len(chks) > 0
    /\ cannotHold

(* C20: when Recovery calls run with no lock, curRecoveryCnt and the number
   of service calls can exceed maxRecoveryCnt, but only in an execution in
   which a Recovery call began while another was running; calls that do not
   overlap never exceed it. *)
C20_ExceedsOnlyInterleaved ==
    /\ curRecoveryCnt > maxRecoveryCnt => interleaved
    /\ topoCalls > maxRecoveryCnt => interleaved

C20_Witness ==
    /\ curRecoveryCnt > maxRecoveryCnt
    /\ topoCalls > maxRecoveryCnt
    /\ interleaved
    /\ \A p \in Procs : pc[p] = "idle"

====
